---------------------------- MODULE Spec2Model ----------------------------
(***************************************************************************)
(* Ingestion pipeline of AutoRAG: chunker.py (split_into_chunks,           *)
(* chunk_documents), embedder.py (truncate_text, embed_chunks),            *)
(* uploader.py (initialize_pinecone, upload_to_pinecone) and main.py.      *)
(*                                                                         *)
(* A text is a sequence of one-character strings.  Remote services (the    *)
(* embedding service, the vector-index service) answer nondeterministically*)
(* and every call made to them is recorded in a log variable.              *)
(***************************************************************************)
EXTENDS Integers, Sequences, FiniteSets

VARIABLES
    pc,               \* position of the running function
    text,             \* split_into_chunks: argument text
    target_size,      \* split_into_chunks: argument target_size
    files,            \* chunk_documents: os.listdir(directory), with contents
    file_idx,         \* chunk_documents: position of the for loop
    uuids,            \* number of uuid4() values generated so far
    chunks,           \* the chunk list (split_into_chunks / chunk_documents result)
    env,              \* os.environ: which API keys are set
    i,                \* embed_chunks: position of the for loop
    embedded_chunks,  \* embed_chunks: output list
    failures,         \* embed_chunks: failure counter
    requests,         \* log of client.embeddings.create calls
    caught,           \* embed_chunks: str(e) of the exception being handled
    checkpoint,       \* content of data/processed/embedded.json
    index_name,       \* upload_to_pinecone: argument index_name
    indexes,          \* vector-index service: names of the existing indexes
    calls,            \* log of vector-index service calls
    j,                \* upload_to_pinecone: position of the for loop
    vectors,          \* upload_to_pinecone: the batch being accumulated
    stored,           \* vector-index service: records held by the index
    error             \* the exception that left the running function, or "none"

vars == <<pc, text, target_size, files, file_idx, uuids, chunks, env, i,
          embedded_chunks, failures, requests, caught, checkpoint, index_name,
          indexes, calls, j, vectors, stored, error>>

chunkerVars == <<text, target_size, files, file_idx, uuids, chunks>>
embedVars   == <<env, i, embedded_chunks, failures, requests, caught>>
uploadVars  == <<index_name, indexes, calls, j, vectors, stored>>

-----------------------------------------------------------------------------
(* Bounds of the model.                                                    *)

MaxTextLen == 6       \* longest text given to split_into_chunks
MaxTargetSize == 3    \* largest target_size given to split_into_chunks
MaxEmbedChunks == 2   \* longest chunk list given to embed_chunks
MaxUploadChunks == 250  \* longest list given to upload_to_pinecone
MaxFiles == 2         \* most files in the directory main reads
MaxInitializeCalls == 3  \* most initialize_pinecone calls that reach the service

-----------------------------------------------------------------------------
(* Python string primitives, on sequences of characters.                   *)

Min(a, b) == IF a <= b THEN a ELSE b

Whitespace == {" ", "\n"}

\* text[:k]
Take(s, k) == SubSeq(s, 1, Min(k, Len(s)))

\* text[k:]
Drop(s, k) == SubSeq(s, k + 1, Len(s))

\* s.find(sub) + 1: position of the first occurrence of sub in s, 0 if none
Find(s, sub) ==
    LET hits == {k \in 1..(Len(s) - Len(sub) + 1) :
                    SubSeq(s, k, k + Len(sub) - 1) = sub}
    IN  IF hits = {} THEN 0 ELSE CHOOSE k \in hits : \A h \in hits : k <= h

\* sub in s
Contains(s, sub) == Find(s, sub) # 0

\* s.split(sep), sep non-empty
RECURSIVE StrSplit(_, _)
StrSplit(s, sep) ==
    LET k == Find(s, sep)
    IN  IF k = 0 THEN <<s>>
        ELSE <<SubSeq(s, 1, k - 1)>> \o StrSplit(Drop(s, k + Len(sep) - 1), sep)

\* s.replace(old, new), old non-empty
RECURSIVE StrReplace(_, _, _)
StrReplace(s, old, new) ==
    LET k == Find(s, old)
    IN  IF k = 0 THEN s
        ELSE SubSeq(s, 1, k - 1) \o new
                \o StrReplace(Drop(s, k + Len(old) - 1), old, new)

\* s.lstrip()
RECURSIVE LStrip(_)
LStrip(s) == IF s # <<>> /\ Head(s) \in Whitespace THEN LStrip(Tail(s)) ELSE s

\* s.rstrip()
RECURSIVE RStrip(_)
RStrip(s) ==
    IF s # <<>> /\ s[Len(s)] \in Whitespace
    THEN RStrip(SubSeq(s, 1, Len(s) - 1)) ELSE s

\* s.strip()
Strip(s) == LStrip(RStrip(s))

-----------------------------------------------------------------------------
(* chunker.py: split_into_chunks.                                          *)

DefaultTargetSize == 750

\* the dictionary appended to chunks; uuid4() is the next unused identifier
MakeChunk(id, current_chunk, file_name) ==
    [id |-> id, text |-> Strip(current_chunk), metadata |-> [source |-> file_name]]

\* len(paragraph) > target_size * 1.5
IsLongParagraph(paragraph, size) == 2 * Len(paragraph) > 3 * size

\* (mutant) the size test lets one more character through
MustFlushOffByOne(current_chunk, unit, size) ==
    Len(current_chunk) + Len(unit) > size + 1 /\ current_chunk # <<>>

\* len(current_chunk) + len(unit) > target_size and current_chunk
MustFlush(current_chunk, unit, size) ==
    Len(current_chunk) + Len(unit) > size /\ current_chunk # <<>>

\* (mutant) the flush starts the new accumulator empty, losing the unit
FoldUnitLosesUnit(acc, unit, joiner, file_name, size) ==
    IF MustFlush(acc.current_chunk, unit, size)
    THEN [chunks |-> Append(acc.chunks,
                            MakeChunk(acc.uuids + 1, acc.current_chunk, file_name)),
          current_chunk |-> <<>>,
          uuids |-> acc.uuids + 1]
    ELSE IF acc.current_chunk # <<>>
         THEN [acc EXCEPT !.current_chunk = acc.current_chunk \o joiner \o unit]
         ELSE [acc EXCEPT !.current_chunk = unit]

\* One pass of either loop body over one atomic unit (a paragraph joined by
\* "\n\n", or a sentence joined by " ").  acc = [chunks, current_chunk, uuids].
FoldUnit(acc, unit, joiner, file_name, size) ==
    IF MustFlush(acc.current_chunk, unit, size)
    THEN [chunks |-> Append(acc.chunks,
                            MakeChunk(acc.uuids + 1, acc.current_chunk, file_name)),
          current_chunk |-> unit,
          uuids |-> acc.uuids + 1]
    ELSE IF acc.current_chunk # <<>>
         THEN [acc EXCEPT !.current_chunk = acc.current_chunk \o joiner \o unit]
         ELSE [acc EXCEPT !.current_chunk = unit]

\* paragraph.replace('. ', '.\n').split('\n')
Sentences(paragraph) ==
    StrSplit(StrReplace(paragraph, <<".", " ">>, <<".", "\n">>), <<"\n">>)

\* for sentence in sentences: ...
RECURSIVE FoldSentences(_, _, _, _)
FoldSentences(acc, sentences, file_name, size) ==
    IF sentences = <<>> THEN acc
    ELSE FoldSentences(FoldUnit(acc, Head(sentences), <<" ">>, file_name, size),
                       Tail(sentences), file_name, size)

\* for paragraph in paragraphs: ...
RECURSIVE FoldParagraphs(_, _, _, _)
FoldParagraphs(acc, paragraphs, file_name, size) ==
    IF paragraphs = <<>> THEN acc
    ELSE LET p == Head(paragraphs)
             next == IF IsLongParagraph(p, size)
                     THEN FoldSentences(acc, Sentences(p), file_name, size)
                     ELSE FoldUnit(acc, p, <<"\n", "\n">>, file_name, size)
         IN  FoldParagraphs(next, Tail(paragraphs), file_name, size)

\* text.split('\n\n')
Paragraphs(t) == StrSplit(t, <<"\n", "\n">>)

\* split_into_chunks(text, file_name, target_size); uuid_base is the number
\* of identifiers uuid4() has already handed out
split_into_chunks(t, file_name, size, uuid_base) ==
    LET acc == FoldParagraphs([chunks |-> <<>>, current_chunk |-> <<>>,
                               uuids |-> uuid_base],
                              Paragraphs(t), file_name, size)
    IN  IF acc.current_chunk # <<>>
        THEN Append(acc.chunks, MakeChunk(acc.uuids + 1, acc.current_chunk, file_name))
        ELSE acc.chunks

-----------------------------------------------------------------------------
(* Specification SpecChunk: split_into_chunks applied to every text over   *)
(* Alphabet of length at most MaxTextLen and every target_size in          *)
(* 1..MaxTargetSize.                                                       *)

Alphabet == {"a", "b", ".", " ", "\n"}

TextsUpTo(n) == UNION {[1..k -> Alphabet] : k \in 0..n}

InitChunk ==
    /\ pc = "split_into_chunks"
    /\ text \in TextsUpTo(MaxTextLen)
    /\ target_size \in 1..MaxTargetSize
    /\ files = <<>> /\ file_idx = 1 /\ uuids = 0 /\ chunks = <<>>
    /\ env = [OPENAI_API_KEY |-> TRUE, PINECONE_API_KEY |-> TRUE]
    /\ i = 1 /\ embedded_chunks = <<>> /\ failures = 0 /\ requests = <<>>
    /\ caught = <<>> /\ checkpoint = "absent"
    /\ index_name = "prompt-feedback" /\ indexes = {} /\ calls = <<>>
    /\ j = 1 /\ vectors = <<>> /\ stored = {}
    /\ error = "none"

SplitIntoChunks ==
    /\ pc = "split_into_chunks"
    /\ chunks' = split_into_chunks(text, "a.md", target_size, uuids)
    /\ uuids' = uuids + Len(chunks')
    /\ pc' = "split_returned"
    /\ UNCHANGED <<text, target_size, files, file_idx, embedVars, checkpoint,
                   uploadVars, error>>

NextChunk == SplitIntoChunks

SpecChunk == InitChunk /\ [][NextChunk]_vars

-----------------------------------------------------------------------------
(* embedder.py: truncate_text and embed_chunks.                            *)

MaxTokens == 8000

\* (mutant) the limit is applied in tokens, not characters
truncate_text_in_tokens(t, max_tokens) ==
    IF Len(t) > max_tokens THEN Take(t, max_tokens) ELSE t

\* truncate_text(text, max_tokens)
truncate_text(t, max_tokens) ==
    LET char_limit == max_tokens * 4
    IN  IF Len(t) > char_limit THEN Take(t, char_limit) ELSE t

\* str(e) of the exceptions client.embeddings.create raises in the model:
\* "Tokens", "limit" and "timeout"
TokensError  == <<"T", "o", "k", "e", "n", "s">>
LimitError   == <<"l", "i", "m", "i", "t">>
TimeoutError == <<"t", "i", "m", "e", "o", "u", "t">>

ErrorMessages == {TokensError, LimitError, TimeoutError}

\* The message of a failed retry is only printed; one message stands for all.
RetryErrorMessages == {TokensError}

\* str.lower(), on the letters the messages use
LowerChar(c) == IF c = "T" THEN "t" ELSE c

Lower(s) == [k \in 1..Len(s) |-> LowerChar(s[k])]

\* (mutant) every failure is retried
LooksLikeTokenLimitAlways(msg) == TRUE

\* "token" in str(e).lower() or "limit" in str(e).lower()
LooksLikeTokenLimit(msg) ==
    \/ Contains(Lower(msg), <<"t", "o", "k", "e", "n">>)
    \/ Contains(Lower(msg), <<"l", "i", "m", "i", "t">>)

\* (mutant) the half length is rounded up
RetryInputRoundedUp(chunk) == Take(chunk.text, (Len(chunk.text) + 1) \div 2)

\* half_length = len(chunk["text"]) // 2; chunk["text"][:half_length]
RetryInput(chunk) == Take(chunk.text, Len(chunk.text) \div 2)

\* {**chunk, "embedding": embedding}
WithEmbedding(chunk, embedding) ==
    [id |-> chunk.id, text |-> chunk.text, metadata |-> chunk.metadata,
     embedding |-> embedding]

\* {**chunk, "embedding": embedding, "text": truncated_text, "truncated": True}
WithEmbeddingTruncated(chunk, embedding, truncated_text) ==
    [id |-> chunk.id, text |-> truncated_text, metadata |-> chunk.metadata,
     embedding |-> embedding, truncated |-> TRUE]

\* One entry of the log of client.embeddings.create calls: the loop position
\* that made the call, which of the two call sites, the input sent, whether
\* the service answered, and the message of the exception if it did not.
Request(pos, kind, input, ok, message) ==
    [pos |-> pos, kind |-> kind, input |-> input, ok |-> ok, message |-> message]

\* The embedding in a response is an opaque value; the model names it by the
\* position in the log of the request it answers.
ResponseEmbedding == Len(requests) + 1

\* (mutant) a failed retry leaves the loop instead of going on
AfterFailedRetryAborts == "embed_raised"

\* except Exception as retry_error: print(...), then the next iteration
AfterFailedRetry == "embed_loop"

\* api_key = os.getenv("OPENAI_API_KEY"); if not api_key: raise ValueError
EmbedStart ==
    /\ pc = "embed_chunks"
    /\ IF env.OPENAI_API_KEY
       THEN /\ pc' = "embed_loop"
            /\ error' = error
       ELSE /\ pc' = "embed_raised"
            /\ error' = "OPENAI_API_KEY environment variable not set"
    /\ embedded_chunks' = <<>>
    /\ failures' = 0
    /\ i' = 1
    /\ UNCHANGED <<chunkerVars, env, requests, caught, checkpoint, uploadVars>>

\* The try block of one iteration, and the head of its except block: the
\* primary request, then either the append or failures += 1 and the test of
\* the message.
EmbedPrimary ==
    /\ pc = "embed_loop"
    /\ i <= Len(chunks)
    /\ LET chunk == chunks[i]
           truncated_text == truncate_text(chunk.text, MaxTokens)
       IN  \/ /\ requests' = Append(requests,
                        Request(i, "primary", truncated_text, TRUE, <<>>))
              /\ embedded_chunks' = Append(embedded_chunks,
                        WithEmbedding(chunk, ResponseEmbedding))
              /\ i' = i + 1
              /\ UNCHANGED <<pc, failures, caught>>
           \/ \E message \in ErrorMessages :
                /\ requests' = Append(requests,
                        Request(i, "primary", truncated_text, FALSE, message))
                /\ failures' = failures + 1
                /\ IF LooksLikeTokenLimit(message)
                   THEN /\ pc' = "embed_retry"
                        /\ caught' = message
                        /\ i' = i
                   ELSE /\ i' = i + 1
                        /\ UNCHANGED <<pc, caught>>
                /\ UNCHANGED embedded_chunks
    /\ UNCHANGED <<chunkerVars, env, checkpoint, uploadVars, error>>

\* The inner try block: the retry with half the text.
EmbedRetry ==
    /\ pc = "embed_retry"
    /\ LET chunk == chunks[i]
           truncated_text == RetryInput(chunk)
       IN  \/ /\ requests' = Append(requests,
                        Request(i, "retry", truncated_text, TRUE, <<>>))
              /\ embedded_chunks' = Append(embedded_chunks,
                        WithEmbeddingTruncated(chunk, ResponseEmbedding,
                                               truncated_text))
              /\ pc' = "embed_loop"
           \/ \E message \in RetryErrorMessages :
                /\ requests' = Append(requests,
                        Request(i, "retry", truncated_text, FALSE, message))
                /\ pc' = AfterFailedRetry
                /\ UNCHANGED embedded_chunks
    /\ i' = i + 1
    /\ caught' = <<>>
    /\ UNCHANGED <<chunkerVars, env, failures, checkpoint, uploadVars, error>>

\* The loop is over: the warning is printed and embedded_chunks returned.
EmbedReturn ==
    /\ pc = "embed_loop"
    /\ i > Len(chunks)
    /\ pc' = "embed_returned"
    /\ UNCHANGED <<chunkerVars, embedVars, checkpoint, uploadVars, error>>

NextEmbed == EmbedStart \/ EmbedPrimary \/ EmbedRetry \/ EmbedReturn

-----------------------------------------------------------------------------
(* Specification SpecEmbed: embed_chunks applied to every list of at most  *)
(* MaxEmbedChunks chunks whose texts are short, exactly at the character   *)
(* limit, or one character over it.                                        *)

\* a text of n characters, no two halves of which are alike
MakeText(n) ==
    [k \in 1..n |-> IF k % 7 = 0 THEN " " ELSE IF 3 * k < n THEN "a" ELSE "b"]

EmbedTexts == {MakeText(3), MakeText(MaxTokens * 4), MakeText(MaxTokens * 4 + 1)}

ChunkLists(n, texts) ==
    {[k \in DOMAIN ts |->
        [id |-> k, text |-> ts[k], metadata |-> [source |-> "a.md"]]] :
        ts \in UNION {[1..m -> texts] : m \in 0..n}}

InitEmbed ==
    /\ pc = "embed_chunks"
    /\ text = <<>> /\ target_size = DefaultTargetSize
    /\ files = <<>> /\ file_idx = 1
    /\ chunks \in ChunkLists(MaxEmbedChunks, EmbedTexts)
    /\ uuids = Len(chunks)
    /\ env \in [OPENAI_API_KEY : BOOLEAN, PINECONE_API_KEY : {TRUE}]
    /\ i = 1 /\ embedded_chunks = <<>> /\ failures = 0 /\ requests = <<>>
    /\ caught = <<>> /\ checkpoint = "absent"
    /\ index_name = "prompt-feedback" /\ indexes = {} /\ calls = <<>>
    /\ j = 1 /\ vectors = <<>> /\ stored = {}
    /\ error = "none"

SpecEmbed == InitEmbed /\ [][NextEmbed]_vars

-----------------------------------------------------------------------------
(* uploader.py: initialize_pinecone and upload_to_pinecone.                *)

Dimension == 1536

Metric == "cosine"

BatchSize == 100

\* pc.list_indexes(), as logged
ListCall(ok, names) == [op |-> "list_indexes", ok |-> ok, names |-> names]

\* pc.create_index(name=..., dimension=..., metric=..., spec=...), as logged
CreateCall(name, ok) ==
    [op |-> "create_index", ok |-> ok, name |-> name, dimension |-> Dimension,
     metric |-> Metric, spec |-> [cloud |-> "aws", region |-> "us-east-1"]]

\* index.upsert(vectors=vectors) on the handle pc.Index(name), as logged
UpsertCall(name, batch, ok) ==
    [op |-> "upsert", ok |-> ok, index |-> name, vectors |-> batch]

\* the dictionary appended to vectors
Vector(chunk) ==
    [id |-> chunk.id, values |-> chunk.embedding,
     metadata |-> [text |-> chunk.text, source |-> chunk.metadata.source]]

\* the index after an upsert: insert, or update the record with the same id
Upserted(records, batch) ==
    LET ids == {batch[k].id : k \in 1..Len(batch)}
    IN  {r \in records : r.id \notin ids} \cup {batch[k] : k \in 1..Len(batch)}

\* (mutant) the index is taken to be missing whatever the list says
IndexIsMissingAlways(name, existing_indexes) == TRUE

\* (mutant) the index is taken to exist whatever the list says
IndexIsMissingNever(name, existing_indexes) == FALSE

\* index_name not in existing_indexes
IndexIsMissing(name, existing_indexes) == name \notin existing_indexes

\* (mutant) the batch is flushed only once it is over the batch size
BatchIsFullOffByOne(batch) == Len(batch) > BatchSize

\* len(vectors) >= batch_size
BatchIsFull(batch) == Len(batch) >= BatchSize

\* (mutant) a failed upsert is swallowed and the loop goes on
AfterFailedUpsertGoesOn == "upload_loop"

\* index.upsert raises: the exception leaves upload_to_pinecone
AfterFailedUpsert == "upload_raised"

\* initialize_pinecone up to the list of the existing indexes: the key test,
\* the client, pc.list_indexes() and the membership test.
InitializePinecone ==
    /\ pc = "upload_to_pinecone"
    /\ j' = 1
    /\ vectors' = <<>>
    /\ IF ~env.PINECONE_API_KEY
       THEN /\ pc' = "upload_raised"
            /\ error' = "PINECONE_API_KEY must be set"
            /\ UNCHANGED calls
       ELSE \/ /\ calls' = Append(calls, ListCall(TRUE, indexes))
               /\ pc' = IF IndexIsMissing(index_name, indexes)
                        THEN "create_index" ELSE "upload_loop"
               /\ UNCHANGED error
            \/ /\ calls' = Append(calls, ListCall(FALSE, {}))
               /\ pc' = "upload_raised"
               /\ error' = "list_indexes failed"
    /\ UNCHANGED <<chunkerVars, embedVars, checkpoint, index_name, indexes, stored>>

\* pc.create_index(...), then pc.Index(index_name)
CreateIndex ==
    /\ pc = "create_index"
    /\ \/ /\ calls' = Append(calls, CreateCall(index_name, TRUE))
          /\ indexes' = indexes \cup {index_name}
          /\ pc' = "upload_loop"
          /\ UNCHANGED error
       \/ /\ calls' = Append(calls, CreateCall(index_name, FALSE))
          /\ pc' = "upload_raised"
          /\ error' = "create_index failed"
          /\ UNCHANGED indexes
    /\ UNCHANGED <<chunkerVars, embedVars, checkpoint, index_name, j, vectors, stored>>

\* One iteration of the for loop: the append, and the upsert of a full batch.
UploadChunk ==
    /\ pc = "upload_loop"
    /\ j <= Len(embedded_chunks)
    /\ LET batch == Append(vectors, Vector(embedded_chunks[j]))
       IN  IF BatchIsFull(batch)
           THEN \/ /\ calls' = Append(calls, UpsertCall(index_name, batch, TRUE))
                   /\ stored' = Upserted(stored, batch)
                   /\ vectors' = <<>>
                   /\ j' = j + 1
                   /\ UNCHANGED <<pc, error>>
                \/ /\ calls' = Append(calls, UpsertCall(index_name, batch, FALSE))
                   /\ vectors' = batch
                   /\ pc' = AfterFailedUpsert
                   /\ error' = "upsert failed"
                   /\ UNCHANGED <<stored, j>>
           ELSE /\ vectors' = batch
                /\ j' = j + 1
                /\ UNCHANGED <<pc, calls, stored, error>>
    /\ UNCHANGED <<chunkerVars, embedVars, checkpoint, index_name, indexes>>

\* After the loop: the upsert of the remaining vectors, and the return.
UploadRest ==
    /\ pc = "upload_loop"
    /\ j > Len(embedded_chunks)
    /\ IF vectors # <<>>
       THEN \/ /\ calls' = Append(calls, UpsertCall(index_name, vectors, TRUE))
               /\ stored' = Upserted(stored, vectors)
               /\ pc' = "upload_returned"
               /\ UNCHANGED error
            \/ /\ calls' = Append(calls, UpsertCall(index_name, vectors, FALSE))
               /\ pc' = AfterFailedUpsert
               /\ error' = "upsert failed"
               /\ UNCHANGED stored
       ELSE /\ pc' = "upload_returned"
            /\ UNCHANGED <<calls, stored, error>>
    /\ UNCHANGED <<chunkerVars, embedVars, checkpoint, index_name, indexes, j, vectors>>

NextUpload == InitializePinecone \/ CreateIndex \/ UploadChunk \/ UploadRest

-----------------------------------------------------------------------------
(* Specification SpecUpload: upload_to_pinecone applied to every list of   *)
(* at most MaxUploadChunks embedded chunks, against a service on which the *)
(* index exists, or does not.                                              *)

\* n embedded chunks with distinct identifiers
EmbeddedList(n) ==
    [k \in 1..n |-> [id |-> k, text |-> <<"a">>, metadata |-> [source |-> "a.md"],
                     embedding |-> k]]

InitUpload ==
    /\ pc = "upload_to_pinecone"
    /\ text = <<>> /\ target_size = DefaultTargetSize
    /\ files = <<>> /\ file_idx = 1 /\ uuids = 0 /\ chunks = <<>>
    /\ env \in [OPENAI_API_KEY : {TRUE}, PINECONE_API_KEY : BOOLEAN]
    /\ i = 1 /\ failures = 0 /\ requests = <<>> /\ caught = <<>>
    /\ embedded_chunks \in {EmbeddedList(n) : n \in 0..MaxUploadChunks}
    /\ checkpoint = "absent"
    /\ index_name = "prompt-feedback"
    /\ indexes \in {{}, {"other"}, {"other", "prompt-feedback"}}
    /\ calls = <<>> /\ j = 1 /\ vectors = <<>> /\ stored = {}
    /\ error = "none"

SpecUpload == InitUpload /\ [][NextUpload]_vars

-----------------------------------------------------------------------------
(* chunker.py: chunk_documents, and main.py: main.                         *)

\* filename.endswith(('.txt', '.md', '.mdx', '.markdown'))
IsTextFile(file) == file.ext \in {".txt", ".md", ".mdx", ".markdown"}

\* (mutant) a file that cannot be read is skipped
ChunkFileSkipsUnreadable ==
    /\ pc = "chunk_documents"
    /\ file_idx <= Len(files)
    /\ LET file == files[file_idx]
       IN  IF ~IsTextFile(file) \/ ~file.readable
           THEN UNCHANGED <<pc, chunks, uuids, error>>
           ELSE LET file_chunks ==
                        split_into_chunks(file.text, file.name,
                                          DefaultTargetSize, uuids)
                IN  /\ chunks' = chunks \o file_chunks
                    /\ uuids' = uuids + Len(file_chunks)
                    /\ UNCHANGED <<pc, error>>
    /\ file_idx' = file_idx + 1
    /\ UNCHANGED <<text, target_size, files, embedVars, checkpoint, uploadVars>>

\* One iteration of the loop of chunk_documents: the extension test,
\* read_file, split_into_chunks with the default target_size, and extend.
\* A failed read is not caught, here or in main.
ChunkFile ==
    /\ pc = "chunk_documents"
    /\ file_idx <= Len(files)
    /\ LET file == files[file_idx]
       IN  IF ~IsTextFile(file)
           THEN UNCHANGED <<pc, chunks, uuids, error>>
           ELSE IF ~file.readable
           THEN /\ pc' = "main_crashed"
                /\ error' = "read_file failed"
                /\ UNCHANGED <<chunks, uuids>>
           ELSE LET file_chunks ==
                        split_into_chunks(file.text, file.name,
                                          DefaultTargetSize, uuids)
                IN  /\ chunks' = chunks \o file_chunks
                    /\ uuids' = uuids + Len(file_chunks)
                    /\ UNCHANGED <<pc, error>>
    /\ file_idx' = file_idx + 1
    /\ UNCHANGED <<text, target_size, files, embedVars, checkpoint, uploadVars>>

\* chunk_documents returns all_chunks; main enters the try block and calls
\* embed_chunks(chunks).
ChunkReturn ==
    /\ pc = "chunk_documents"
    /\ file_idx > Len(files)
    /\ pc' = "embed_chunks"
    /\ UNCHANGED <<chunkerVars, embedVars, checkpoint, uploadVars, error>>

\* main up to the call of chunk_documents: the arguments, the directories and
\* the optional fetch.  repo_parts is args.github.split("/"), or empty when
\* there is nothing to fetch; files is the directory as the fetch leaves it.
MainStart ==
    /\ pc = "main"
    /\ \E repo_parts \in {<<>>, <<"owner", "name">>, <<"owner">>} :
        pc' = IF repo_parts # <<>> /\ Len(repo_parts) # 2
              THEN "main_returned" ELSE "chunk_documents"
    /\ UNCHANGED <<chunkerVars, embedVars, checkpoint, uploadVars, error>>

\* (mutant) the upload is started whatever embed_chunks returned
MainSaveAlwaysUploads ==
    /\ pc = "embed_returned"
    /\ checkpoint' = embedded_chunks
    /\ pc' = "upload_to_pinecone"
    /\ UNCHANGED <<chunkerVars, embedVars, uploadVars, error>>

\* (mutant) main goes on to the upload without writing the checkpoint
MainSaveSkipped ==
    /\ pc = "embed_returned"
    /\ pc' = IF embedded_chunks # <<>> THEN "upload_to_pinecone" ELSE "main_returned"
    /\ UNCHANGED <<chunkerVars, embedVars, checkpoint, uploadVars, error>>

\* embed_chunks has returned: json.dump(embedded_chunks, f), then the upload
\* if there is anything to upload.
MainSave ==
    /\ pc = "embed_returned"
    /\ checkpoint' = embedded_chunks
    /\ pc' = IF embedded_chunks # <<>> THEN "upload_to_pinecone" ELSE "main_returned"
    /\ UNCHANGED <<chunkerVars, embedVars, uploadVars, error>>

\* except Exception as e: the two messages are printed and main returns
MainExcept ==
    /\ pc \in {"embed_raised", "upload_raised"}
    /\ pc' = "main_returned"
    /\ UNCHANGED <<chunkerVars, embedVars, checkpoint, uploadVars, error>>

\* upload_to_pinecone has returned: "Process completed successfully!"
MainDone ==
    /\ pc = "upload_returned"
    /\ pc' = "main_returned"
    /\ UNCHANGED <<chunkerVars, embedVars, checkpoint, uploadVars, error>>

Next ==
    \/ MainStart \/ ChunkFile \/ ChunkReturn
    \/ NextEmbed
    \/ MainSave
    \/ NextUpload
    \/ MainExcept \/ MainDone

-----------------------------------------------------------------------------
(* Specification Spec: a run of main over a directory of at most MaxFiles  *)
(* files.                                                                  *)

\* two paragraphs of 600 characters: two chunks at the default target_size
TwoParagraphs == MakeText(600) \o <<"\n", "\n">> \o MakeText(600)

DirectoryFiles ==
    {[name |-> "short.md", ext |-> ".md", text |-> <<"a", "b", ".">>,
      readable |-> TRUE],
     [name |-> "two.markdown", ext |-> ".markdown", text |-> TwoParagraphs,
      readable |-> TRUE],
     [name |-> "locked.txt", ext |-> ".txt", text |-> <<"a">>, readable |-> FALSE],
     [name |-> "logo.png", ext |-> ".png", text |-> <<"a">>, readable |-> TRUE]}

\* os.listdir(directory): distinct files in any order
Listings(n) ==
    {l \in UNION {[1..m -> DirectoryFiles] : m \in 0..n} :
        \A a, b \in DOMAIN l : a # b => l[a].name # l[b].name}

Init ==
    /\ pc = "main"
    /\ text = <<>> /\ target_size = DefaultTargetSize
    /\ files \in Listings(MaxFiles)
    /\ file_idx = 1 /\ uuids = 0 /\ chunks = <<>>
    /\ env \in [OPENAI_API_KEY : BOOLEAN, PINECONE_API_KEY : BOOLEAN]
    /\ i = 1 /\ embedded_chunks = <<>> /\ failures = 0 /\ requests = <<>>
    /\ caught = <<>> /\ checkpoint = "absent"
    /\ index_name = "prompt-feedback"
    /\ indexes \in {{}, {"prompt-feedback"}}
    /\ calls = <<>> /\ j = 1 /\ vectors = <<>> /\ stored = {}
    /\ error = "none"

Spec == Init /\ [][Next]_vars

-----------------------------------------------------------------------------
(* Claims about split_into_chunks, checked under SpecChunk.                *)

ChunkTexts(cs) == [k \in 1..Len(cs) |-> cs[k].text]

RECURSIVE Concat(_)
Concat(ss) == IF ss = <<>> THEN <<>> ELSE Head(ss) \o Concat(Tail(ss))

IsNotWhitespace(c) == c \notin Whitespace

WithoutWhitespace(s) == SelectSeq(s, IsNotWhitespace)

SeqRange(s) == {s[k] : k \in 1..Len(s)}

\* the atomic units the two loops walk over: the sentences of every long
\* paragraph and every other paragraph whole
AtomicUnits(t, size) ==
    UNION {IF IsLongParagraph(p, size) THEN SeqRange(Sentences(p)) ELSE {p} :
           p \in SeqRange(Paragraphs(t))}

SplitReturned == pc = "split_returned"

C6_ContentPreserved ==
    (SplitReturned /\ text # <<>>) =>
        WithoutWhitespace(Concat(ChunkTexts(chunks))) = WithoutWhitespace(text)

\* C6 witness: a text with a long paragraph split into sentences, flushed
\* into several chunks, with whitespace removed by the split or the trim.
C6_Witness ==
    /\ SplitReturned
    /\ Len(chunks) >= 2
    /\ \E p \in SeqRange(Paragraphs(text)) :
            IsLongParagraph(p, target_size) /\ Len(Sentences(p)) >= 2
    /\ Len(Concat(ChunkTexts(chunks))) < Len(text)

-----------------------------------------------------------------------------
(* Claims about embed_chunks, checked under SpecEmbed.                     *)

EmbedReturned == pc = "embed_returned"

\* the positions in the log of the requests of one kind made for chunk k
RequestsFor(k, kind) ==
    {r \in 1..Len(requests) : requests[r].pos = k /\ requests[r].kind = kind}

\* chunk k's primary request failed with a message that mentions token/limit
PrimaryFailedOnLength(k) ==
    \E r \in RequestsFor(k, "primary") :
        ~requests[r].ok /\ requests[r].message \in {TokensError, LimitError}

\* the handling of chunk k is over
Handled(k) == k < i \/ pc \in {"embed_returned", "embed_raised"}

OutputIds == {embedded_chunks[k].id : k \in 1..Len(embedded_chunks)}

FailedPrimaries ==
    {r \in 1..Len(requests) : requests[r].kind = "primary" /\ ~requests[r].ok}

\* C2: for every chunk whose primary request failed with a length-related
\* error, exactly one retry is made, right after the primary request, and its
\* input is the first floor(len/2) characters of the chunk's original text;
\* if the retry fails too the chunk is not in the output, and the failure
\* counter has gone up by exactly one per failed primary request.
C2_RetryOnceWithHalf ==
    /\ failures = Cardinality(FailedPrimaries)
    /\ \A k \in 1..Len(chunks) :
        (Handled(k) /\ PrimaryFailedOnLength(k)) =>
            /\ Cardinality(RequestsFor(k, "retry")) = 1
            /\ \A r \in RequestsFor(k, "retry") :
                /\ r - 1 \in RequestsFor(k, "primary")
                /\ requests[r].input =
                        SubSeq(chunks[k].text, 1, Len(chunks[k].text) \div 2)
                /\ ~requests[r].ok => chunks[k].id \notin OutputIds

\* C2 witness: embed_chunks returned after a chunk's primary request failed
\* on length and its retry failed as well.
C2_Witness ==
    /\ EmbedReturned
    /\ \E k \in 1..Len(chunks) :
        /\ PrimaryFailedOnLength(k)
        /\ \E r \in RequestsFor(k, "retry") : ~requests[r].ok
        /\ Len(chunks[k].text) > 1

\* C3 (as stated): when embed_chunks returns, the failure count equals the
\* number of input chunks minus the number of chunks in the output.
C3_FailuresCountDrops ==
    EmbedReturned => failures = Len(chunks) - Len(embedded_chunks)

\* C4 (as stated): every chunk in the output of embed_chunks carries as its
\* text exactly the input of the request that produced its embedding.
C4_TextIsWhatWasEmbedded ==
    \A k \in 1..Len(embedded_chunks) :
        embedded_chunks[k].text = requests[embedded_chunks[k].embedding].input

IsPrimary(request) == request.kind = "primary"

\* the chunks whose primary or retry request succeeded
Succeeded ==
    {k \in 1..Len(chunks) :
        \E r \in 1..Len(requests) : requests[r].pos = k /\ requests[r].ok}

\* the identifiers of the chunks of cs at the positions in S, from k on
RECURSIVE IdsAt(_, _, _)
IdsAt(cs, S, k) ==
    IF k > Len(cs) THEN <<>>
    ELSE (IF k \in S THEN <<cs[k].id>> ELSE <<>>) \o IdsAt(cs, S, k + 1)

\* C7: whatever requests fail, the loop of embed_chunks never aborts: the
\* primary requests are made once per chunk in input order, for every chunk
\* by the time the function returns, no exception leaves the function once a
\* request was made, and the output is exactly the input chunks whose primary
\* or retry request succeeded, in input order.
C7_FailuresAreIsolated ==
    /\ LET primary == SelectSeq(requests, IsPrimary)
       IN  /\ \A k \in 1..Len(primary) : primary[k].pos = k
           /\ EmbedReturned => Len(primary) = Len(chunks)
    /\ pc = "embed_raised" => requests = <<>>
    /\ EmbedReturned =>
          [k \in 1..Len(embedded_chunks) |-> embedded_chunks[k].id]
              = IdsAt(chunks, Succeeded, 1)

\* C7 witness: embed_chunks returned with a chunk dropped after its retry
\* failed and the chunk after it in the output.
C7_Witness ==
    /\ EmbedReturned
    /\ \E k \in 1..(Len(chunks) - 1) :
        /\ \E r \in RequestsFor(k, "retry") : ~requests[r].ok
        /\ chunks[k].id \notin OutputIds
        /\ chunks[k + 1].id \in OutputIds

-----------------------------------------------------------------------------
(* Claims about upload_to_pinecone, checked under SpecUpload.              *)

IsUpsert(call) == call.op = "upsert"

Upserts == SelectSeq(calls, IsUpsert)

Batches == [k \in 1..Len(Upserts) |-> Upserts[k].vectors]

\* the positions in the log of the calls of one operation
CallsOf(op) == {k \in 1..Len(calls) : calls[k].op = op}

\* C1: when upload_to_pinecone returns (every upsert succeeded) it has made
\* exactly ceil(n/100) upsert calls, each of 1 to 100 records, all but the
\* last of exactly 100, and the batches concatenated in call order are the
\* input list in order, each chunk once.
C1_BatchesPartitionInput ==
    pc = "upload_returned" =>
        /\ Len(Upserts) = (Len(embedded_chunks) + 99) \div 100
        /\ \A k \in 1..Len(Upserts) :
            /\ Upserts[k].ok
            /\ Len(Batches[k]) >= 1
            /\ Len(Batches[k]) <= 100
            /\ k < Len(Upserts) => Len(Batches[k]) = 100
        /\ Concat(Batches) =
               [k \in 1..Len(embedded_chunks) |->
                   [id |-> embedded_chunks[k].id,
                    values |-> embedded_chunks[k].embedding,
                    metadata |-> [text |-> embedded_chunks[k].text,
                                  source |-> embedded_chunks[k].metadata.source]]]

\* C1 witness: 250 chunks uploaded in batches of 100, 100 and 50.
C1_Witness ==
    /\ pc = "upload_returned"
    /\ Len(embedded_chunks) = 250
    /\ [k \in 1..Len(Batches) |-> Len(Batches[k])] = <<100, 100, 50>>

\* C9: once the list of indexes has come back without the index name,
\* exactly one create-index call is made, next in the log, with dimension
\* 1536 and metric "cosine", before every upsert; and every upsert goes to
\* an index that an earlier call listed or created.
C9_CreateBeforeUpsert ==
    /\ \A k \in CallsOf("list_indexes") :
        (calls[k].ok /\ index_name \notin calls[k].names /\ pc # "create_index") =>
            /\ CallsOf("create_index") = {k + 1}
            /\ calls[k + 1].name = index_name
            /\ calls[k + 1].dimension = 1536
            /\ calls[k + 1].metric = "cosine"
            /\ \A u \in CallsOf("upsert") : u > k + 1
    /\ \A u \in CallsOf("upsert") :
        \E k \in 1..(u - 1) :
            \/ /\ calls[k].op = "list_indexes" /\ calls[k].ok
               /\ calls[u].index \in calls[k].names
            \/ /\ calls[k].op = "create_index" /\ calls[k].ok
               /\ calls[u].index = calls[k].name

\* C9 witness: the index was not listed, was created, and an upsert followed.
C9_Witness ==
    /\ \E k \in CallsOf("list_indexes") : index_name \notin calls[k].names
    /\ \E k \in CallsOf("create_index") : calls[k].ok
    /\ \E u \in CallsOf("upsert") : calls[u].ok

\* the records of the batches of the successful upserts among the first n calls
UpsertedBefore(n) ==
    UNION {{calls[k].vectors[m] : m \in 1..Len(calls[k].vectors)} :
           k \in {u \in CallsOf("upsert") : u < n /\ calls[u].ok}}

\* C10: a failed upsert is the last call upload_to_pinecone makes: the
\* exception leaves the function, the batch is not sent again, no later batch
\* is sent, and the index holds exactly the batches upserted before it.
C10_FailedUpsertAborts ==
    \A u \in CallsOf("upsert") :
        ~calls[u].ok =>
            /\ u = Len(calls)
            /\ pc = "upload_raised"
            /\ error = "upsert failed"
            /\ stored = UpsertedBefore(u)

\* C10 witness: the third upsert failed after two batches of 100 went in, with
\* chunks still waiting.
C10_Witness ==
    /\ Len(Upserts) = 3
    /\ ~Upserts[3].ok
    /\ Cardinality(stored) = 200
    /\ Len(embedded_chunks) > 200

-----------------------------------------------------------------------------
(* Claims about main, checked under Spec.                                  *)

EmbeddingRuns == pc \in {"embed_chunks", "embed_loop", "embed_retry", "embed_returned"}

UploadRuns == pc \in {"upload_to_pinecone", "create_index", "upload_loop",
                     "upload_returned", "upload_raised"}

\* the state part of C8
PhasesInOrder ==
    /\ (calls # <<>> \/ UploadRuns) => checkpoint # "absent"
    /\ checkpoint # "absent" =>
          /\ ~EmbeddingRuns
          /\ i > Len(chunks)
          /\ checkpoint = embedded_chunks

\* C8: in every run of main the embedding is over, every chunk handled, when
\* the checkpoint is written, the checkpoint is written before the first
\* index operation, and no embedding request is made once the checkpoint is
\* written or an index operation was issued.
C8_PhasesAreSequential ==
    /\ []PhasesInOrder
    /\ [][(checkpoint # "absent" \/ calls # <<>>) => requests' = requests]_vars
    /\ [][checkpoint # "absent" => checkpoint' = checkpoint]_vars

\* C8 witness: a run that made a primary and a retry request, wrote the
\* checkpoint, created the index and upserted.
C8_Witness ==
    /\ pc = "main_returned"
    /\ \E r \in 1..Len(requests) : requests[r].kind = "retry"
    /\ checkpoint # "absent"
    /\ CallsOf("create_index") # {}
    /\ \E u \in CallsOf("upsert") : calls[u].ok

-----------------------------------------------------------------------------
(* Further claims about main, checked under Spec.                          *)

ConfigurationErrors ==
    {"OPENAI_API_KEY environment variable not set", "PINECONE_API_KEY must be set"}

\* read_file was called on a file of the directory
DocumentsRead == \E k \in 1..(file_idx - 1) : IsTextFile(files[k])

\* C11 (as stated): when a missing API key raises the configuration error,
\* no document has been read or chunked, no embedding request has been sent
\* and the checkpoint has not been written.
C11_ConfigErrorBeforeAnyWork ==
    error \in ConfigurationErrors =>
        /\ ~DocumentsRead
        /\ chunks = <<>>
        /\ requests = <<>>
        /\ checkpoint = "absent"

\* the read of the k-th file of the directory fails
ReadFails(k) == IsTextFile(files[k]) /\ ~files[k].readable

\* C15: when the read of an eligible file fails, the failure leaves
\* chunk_documents and main at once: no chunk list is returned, and the run
\* makes no embedding request, writes no checkpoint and makes no index call;
\* a run never gets past a file that cannot be read.
C15_ReadFailureStopsRun ==
    /\ \A k \in 1..(file_idx - 1) :
        ReadFails(k) =>
            /\ pc = "main_crashed"
            /\ error = "read_file failed"
            /\ file_idx = k + 1
    /\ (\E k \in 1..Len(files) : ReadFails(k)) =>
            /\ pc \in {"main", "chunk_documents", "main_crashed", "main_returned"}
            /\ embedded_chunks = <<>>
            /\ requests = <<>>
            /\ checkpoint = "absent"
            /\ calls = <<>>

\* C15 witness: the first file was chunked and the read of the second failed.
C15_Witness ==
    /\ pc = "main_crashed"
    /\ file_idx = 3
    /\ ReadFails(2)
    /\ chunks # <<>>

-----------------------------------------------------------------------------
(* Further claims about embed_chunks, checked under SpecEmbed.             *)

\* every request made for chunk k
AllRequestsFor(k) == {r \in 1..Len(requests) : requests[r].pos = k}

\* chunk k's primary request failed with a message that mentions neither
\* "token" nor "limit"
PrimaryFailedOtherwise(k) ==
    \E r \in RequestsFor(k, "primary") :
        ~requests[r].ok /\ requests[r].message = TimeoutError

C13_PrimaryInputTruncated ==
    \A r \in 1..Len(requests) :
        requests[r].kind = "primary" =>
            LET original == chunks[requests[r].pos].text
            IN  /\ Len(requests[r].input) <= 32000
                /\ Len(original) > 32000 =>
                        requests[r].input = SubSeq(original, 1, 32000)
                /\ Len(original) <= 32000 => requests[r].input = original

\* C13 witness: primary requests were made for a text one character over the
\* limit and for a text exactly at the limit.
C13_Witness ==
    /\ \E r \in 1..Len(requests) :
        /\ requests[r].kind = "primary"
        /\ Len(chunks[requests[r].pos].text) = 32001
        /\ Len(requests[r].input) = 32000
    /\ \E r \in 1..Len(requests) :
        /\ requests[r].kind = "primary"
        /\ Len(chunks[requests[r].pos].text) = 32000

-----------------------------------------------------------------------------
(* Further claims about split_into_chunks, checked under SpecChunk.        *)

\* C14 (as stated): every chunk returned by split_into_chunks has a
\* non-empty text, and the empty text yields no chunk.
C14_NoEmptyChunk ==
    SplitReturned =>
        /\ \A k \in 1..Len(chunks) : Strip(chunks[k].text) # <<>>
        /\ text = <<>> => chunks = <<>>

-----------------------------------------------------------------------------
(* Specification SpecProvision: initialize_pinecone called again and again *)
(* with the same index name, one call per run, at most MaxInitializeCalls  *)
(* calls reaching the service; the service keeps its indexes between the   *)
(* calls.                                                                  *)

\* the next run: upload_to_pinecone calls initialize_pinecone again
InitializeAgain ==
    /\ pc \in {"upload_loop", "upload_raised"}
    /\ Cardinality(CallsOf("list_indexes")) < MaxInitializeCalls
    /\ pc' = "upload_to_pinecone"
    /\ error' = "none"
    /\ UNCHANGED <<chunkerVars, embedVars, checkpoint, uploadVars>>

NextProvision == InitializePinecone \/ CreateIndex \/ InitializeAgain

InitProvision ==
    /\ pc = "upload_to_pinecone"
    /\ text = <<>> /\ target_size = DefaultTargetSize
    /\ files = <<>> /\ file_idx = 1 /\ uuids = 0 /\ chunks = <<>>
    /\ env \in [OPENAI_API_KEY : {TRUE}, PINECONE_API_KEY : BOOLEAN]
    /\ i = 1 /\ failures = 0 /\ requests = <<>> /\ caught = <<>>
    /\ embedded_chunks = <<>>
    /\ checkpoint = "absent"
    /\ index_name = "prompt-feedback"
    /\ indexes \in {{}, {"other"}, {"other", "prompt-feedback"}}
    /\ calls = <<>> /\ j = 1 /\ vectors = <<>> /\ stored = {}
    /\ error = "none"

SpecProvision == InitProvision /\ [][NextProvision]_vars

\* the k-th call is a list of the indexes that shows index_name
ListShowsName(k) ==
    /\ calls[k].op = "list_indexes"
    /\ calls[k].ok
    /\ index_name \in calls[k].names

\* the k-th call is a create-index call that succeeded
CreateSucceeded(k) == calls[k].op = "create_index" /\ calls[k].ok

\* a call that finds the name listed issues no create-index call
NoCreateWhenListed ==
    \A k \in 1..(Len(calls) - 1) :
        ListShowsName(k) => calls[k + 1].op # "create_index"

\* C16 (as stated): any number of consecutive initialize_pinecone calls with
\* the same name issue at most one create-index call in total, and a call
\* that finds the name listed issues none.
C16_AsStated ==
    /\ Cardinality(CallsOf("create_index")) <= 1
    /\ NoCreateWhenListed

\* C16 (amended): over any number of consecutive initialize_pinecone calls
\* with the same name, every create-index call directly follows a list of
\* the indexes that does not show the name, no create-index call follows one
\* that succeeded (so at most one succeeds in total; a further one is issued
\* only after a create-index call that failed), and a call that finds the
\* name listed issues none.
C16_ProvisioningIdempotent ==
    /\ \A k \in CallsOf("create_index") :
        /\ k > 1
        /\ calls[k - 1].op = "list_indexes"
        /\ calls[k - 1].ok
        /\ index_name \notin calls[k - 1].names
        /\ calls[k].name = index_name
        /\ \A m \in 1..(k - 1) : ~CreateSucceeded(m)
    /\ Cardinality({k \in 1..Len(calls) : CreateSucceeded(k)}) <= 1
    /\ NoCreateWhenListed

\* C16 witness: a create-index call failed, the next call created the index,
\* and the call after that found the name listed and returned.
C16_Witness ==
    /\ pc = "upload_loop"
    /\ Len(calls) = 5
    /\ calls[2].op = "create_index" /\ ~calls[2].ok
    /\ CreateSucceeded(4)
    /\ ListShowsName(5)

-----------------------------------------------------------------------------
(* Further claims about split_into_chunks: the two loops replayed one      *)
(* atomic unit at a time, checked under SpecChunk.                         *)

\* the atomic units of the paragraphs in the order the loops meet them, each
\* with the joiner of its loop
RECURSIVE UnitSteps(_, _)
UnitSteps(paragraphs, size) ==
    IF paragraphs = <<>> THEN <<>>
    ELSE LET p == Head(paragraphs)
             sentences == Sentences(p)
             steps == IF IsLongParagraph(p, size)
                      THEN [k \in 1..Len(sentences) |->
                               [unit |-> sentences[k], joiner |-> <<" ">>]]
                      ELSE <<[unit |-> p, joiner |-> <<"\n", "\n">>]>>
         IN  steps \o UnitSteps(Tail(paragraphs), size)

\* One row per atomic unit: the accumulator before and after the loop body,
\* whether the body flushed or appended to a non-empty accumulator, the
\* number of units in the accumulator before (units_before) and after
\* (units), and the chunks so far.  n is the number of units in acc.
RECURSIVE Replay(_, _, _, _)
Replay(acc, n, steps, size) ==
    IF steps = <<>> THEN <<>>
    ELSE LET s == Head(steps)
             next == FoldUnit(acc, s.unit, s.joiner, "a.md", size)
             flushed == Len(next.chunks) > Len(acc.chunks)
             appended == acc.current_chunk # <<>> /\ ~flushed
             units == IF appended THEN n + 1 ELSE 1
         IN  <<[unit |-> s.unit, joiner |-> s.joiner,
                before |-> acc.current_chunk, after |-> next.current_chunk,
                flushed |-> flushed, appended |-> appended,
                units_before |-> n, units |-> units,
                chunks |-> next.chunks]>>
             \o Replay(next, units, Tail(steps), size)

\* the replay of split_into_chunks(text, ..., target_size)
Trace ==
    Replay([chunks |-> <<>>, current_chunk |-> <<>>, uuids |-> 0], 0,
           UnitSteps(Paragraphs(text), target_size), target_size)

IsFlush(row) == row.flushed

\* the number of atomic units combined in each chunk the replay ends with:
\* one entry per flush, and one for the accumulator left after the loops
UnitsInChunks(trace) ==
    LET flushes == SelectSeq(trace, IsFlush)
        counts == [m \in 1..Len(flushes) |-> flushes[m].units_before]
    IN  IF trace # <<>> /\ trace[Len(trace)].after # <<>>
        THEN Append(counts, trace[Len(trace)].units)
        ELSE counts

\* the chunk texts the replay ends with
TextsOfReplay(trace) ==
    IF trace = <<>> THEN <<>>
    ELSE LET last == trace[Len(trace)]
         IN  IF last.after # <<>>
             THEN Append(ChunkTexts(last.chunks), Strip(last.after))
             ELSE ChunkTexts(last.chunks)

-----------------------------------------------------------------------------
(* Further claims about main: the run that embeds nothing, checked under   *)
(* Spec.                                                                   *)

\* C18: when embed_chunks returns an empty list (no input chunk, or every
\* chunk dropped), main writes the empty checkpoint and returns without any
\* vector-index call: no list-indexes query, no create-index call and no
\* upsert, and the indexes of the service stay as they were.
C18_NothingEmbeddedNothingUploaded ==
    /\ [](UploadRuns => embedded_chunks # <<>>)
    /\ [](calls # <<>> => (checkpoint # "absent" /\ checkpoint # <<>>))
    /\ [][embedded_chunks' = <<>> =>
              (calls' = <<>> /\ indexes' = indexes /\ stored' = stored)]_vars
    /\ [][(pc = "embed_returned" /\ embedded_chunks = <<>>) =>
              /\ checkpoint' # "absent"
              /\ checkpoint' = <<>>
              /\ pc' = "main_returned"]_vars

\* C18 witness: every chunk was dropped after its requests failed, the empty
\* checkpoint is written and main has returned without an index call.
C18_Witness ==
    /\ pc = "main_returned"
    /\ chunks # <<>>
    /\ requests # <<>>
    /\ embedded_chunks = <<>>
    /\ checkpoint # "absent"
    /\ checkpoint = <<>>
    /\ calls = <<>>

=============================================================================
